---- MODULE Spec2Model ----
(***************************************************************************)
(* A model of document_datasets.py, the script that renders the catalogue  *)
(* of registered dataset builders as one Markdown document.                *)
(*                                                                         *)
(* Text is modelled as a sequence of tokens (short strings): joining and   *)
(* %-interpolation are concatenations of token sequences.  A template      *)
(* filled by str.format is modelled as a record that names the template    *)
(* and holds the value of each placeholder the template contains.          *)
(***************************************************************************)
EXTENDS Integers, Sequences, FiniteSets, TLC

VARIABLES
  pc,                      \* position of the run
  info,                    \* the DatasetInfo handed to the two renderers
  feature_information,     \* result of make_feature_information
  statistics_information,  \* result of make_statistics_information
  registry,                \* the registered builders: name -> module path
  listing,                 \* what tfds.list_builders() returned
  unresolvable,            \* the requests the registry has failed
  datasets,                \* the argument of dataset_docs_str
  requests,                \* the requests made to the registry so far
  module_to_builder,       \* the hierarchy of make_module_to_builder_dict
  section_tocs,            \* dataset_docs_str's list section_tocs
  section_docs,            \* dataset_docs_str's list section_docs
  full_doc,                \* the string dataset_docs_str returns
  stdout                   \* what main has printed

renderVars == <<info, feature_information, statistics_information>>
docVars == <<registry, listing, unresolvable, datasets, requests, module_to_builder,
             section_tocs, section_docs, full_doc, stdout>>
vars == <<pc, renderVars, docVars>>

(***************************************************************************)
(* Bounds of the model.                                                    *)
(***************************************************************************)
MaxFeatures == 3   \* keys of a feature schema, all levels together
MaxSplits == 2     \* splits of a split-statistics mapping
MaxCount == 2      \* largest example count
MaxDatasets == 2   \* names in an explicit datasets argument

(***************************************************************************)
(* Strings.  Python compares str values by code point; Ord gives the code  *)
(* points of every name the model uses.                                    *)
(***************************************************************************)
Ord(s) ==
  CASE s = "image" -> <<105, 109, 97, 103, 101>>
    [] s = "label" -> <<108, 97, 98, 101, 108>>
    [] s = "objects" -> <<111, 98, 106, 101, 99, 116, 115>>
    [] s = "ALL" -> <<65, 76, 76>>
    [] s = "TRAIN" -> <<84, 82, 65, 73, 78>>
    [] s = "TEST" -> <<84, 69, 83, 84>>
    [] s = "VALIDATION" -> <<86, 65, 76, 73, 68, 65, 84, 73, 79, 78>>
    [] s = "alpha" -> <<97, 108, 112, 104, 97>>
    [] s = "mid" -> <<109, 105, 100>>
    [] s = "image_label_folder" ->
         <<105, 109, 97, 103, 101, 95, 108, 97, 98, 101, 108, 95, 102, 111,
           108, 100, 101, 114>>
    [] s = "tensorflow_datasets" ->
         <<116, 101, 110, 115, 111, 114, 102, 108, 111, 119, 95, 100, 97,
           116, 97, 115, 101, 116, 115>>
    [] s = "text" -> <<116, 101, 120, 116>>
    [] s = "testing" -> <<116, 101, 115, 116, 105, 110, 103>>
    [] s = "other_pkg" -> <<111, 116, 104, 101, 114, 95, 112, 107, 103>>
    [] s = "mnist" -> <<109, 110, 105, 115, 116>>
    [] s = "imdb" -> <<105, 109, 100, 98>>
    [] s = "folder" -> <<102, 111, 108, 100, 101, 114>>
    [] s = "deep" -> <<100, 101, 101, 112>>

\* str.upper on the split names.
Upper(s) ==
  CASE s = "train" -> "TRAIN"
    [] s = "test" -> "TEST"
    [] s = "validation" -> "VALIDATION"

\* Lexicographic order of two sequences of integers: Python's order of
\* str (on code points) and of tuples.
RECURSIVE LexLess(_, _)
LexLess(a, b) ==
  IF b = <<>> THEN FALSE
  ELSE IF a = <<>> THEN TRUE
  ELSE IF Head(a) # Head(b) THEN Head(a) < Head(b)
  ELSE LexLess(Tail(a), Tail(b))

\* list.sort / sorted: a stable sort of items [key, val], ascending by key.
RECURSIVE InsertAscending(_, _)
InsertAscending(sorted, x) ==
  IF sorted = <<>> THEN <<x>>
  ELSE IF LexLess(x.key, Head(sorted).key) THEN <<x>> \o sorted
  ELSE <<Head(sorted)>> \o InsertAscending(Tail(sorted), x)

RECURSIVE SortAscending(_)
SortAscending(items) ==
  IF items = <<>> THEN <<>>
  ELSE InsertAscending(SortAscending(SubSeq(items, 1, Len(items) - 1)),
                       items[Len(items)])

\* list.sort(reverse=True): stable, descending by key.
RECURSIVE InsertDescending(_, _)
InsertDescending(sorted, x) ==
  IF sorted = <<>> THEN <<x>>
  ELSE IF LexLess(Head(sorted).key, x.key) THEN <<x>> \o sorted
  ELSE <<Head(sorted)>> \o InsertDescending(Tail(sorted), x)

RECURSIVE SortDescending(_)
SortDescending(items) ==
  IF items = <<>> THEN <<>>
  ELSE InsertDescending(SortDescending(SubSeq(items, 1, Len(items) - 1)),
                        items[Len(items)])

Vals(items) == [i \in 1..Len(items) |-> items[i].val]

\* sep.join(parts), each part a token sequence.
RECURSIVE Join(_, _)
Join(sep, parts) ==
  IF parts = <<>> THEN <<>>
  ELSE IF Len(parts) = 1 THEN parts[1]
  ELSE parts[1] \o <<sep>> \o Join(sep, Tail(parts))

\* " " * n
Spaces(n) == [i \in 1..n |-> " "]

\* No text yet, and no info record.
NoText == <<>>
NoInfo == [features |-> <<>>, splits |-> <<>>, total |-> <<>>]

(***************************************************************************)
(* Feature schemas.  A FeaturesDict is a sequence of entries [k, v] in the *)
(* mapping's own key order, keys distinct; v is a leaf feature, [leaf],    *)
(* whose str() is one token, or a nested FeaturesDict, [dict].             *)
(***************************************************************************)
FeatureKeys == {"image", "label", "objects"}
Leaves == {"Tensor", "ClassLabel"}
TypeName == "FeaturesDict"

IsFeaturesDict(v) == "dict" \in DOMAIN v

KeysOf(fd) == [i \in 1..Len(fd) |-> fd[i].k]

Lookup(fd, k) == fd[CHOOSE i \in 1..Len(fd) : fd[i].k = k].v

\* Every schema with exactly n keys, all levels together.
RECURSIVE SchemasOfSize(_)
SchemasOfSize(n) ==
  IF n = 0 THEN {<<>>}
  ELSE UNION {
         LET values == IF c[2] = 0
                       THEN {[leaf |-> l] : l \in Leaves} \cup {[dict |-> <<>>]}
                       ELSE {[dict |-> s] : s \in SchemasOfSize(c[2])}
             rests == {r \in SchemasOfSize(n - 1 - c[2]) :
                         \A i \in 1..Len(r) : r[i].k # c[1]}
         IN { <<[k |-> c[1], v |-> v]>> \o rest : v \in values, rest \in rests }
         : c \in FeatureKeys \X (0..(n - 1)) }

Schemas == UNION {SchemasOfSize(n) : n \in 0..MaxFeatures}

\* sorted(list(features_dict.keys()))
UnsortedKeys(fd) == KeysOf(fd)
SortedKeys(fd) ==
  Vals(SortAscending([i \in 1..Len(fd) |-> [key |-> Ord(fd[i].k), val |-> fd[i].k]]))

\* The opening line: "%s%s({" % (indent if add_prefix else "", type name).
FirstLineRootOnly(first_last_indent_str, add_prefix) ==
  IF add_prefix THEN first_last_indent_str \o <<TypeName, "({">> ELSE <<"({">>
FirstLine(first_last_indent_str, add_prefix) ==
  (IF add_prefix THEN first_last_indent_str ELSE <<>>) \o <<TypeName, "({">>

RECURSIVE PprintFeaturesDict(_, _, _)
PprintFeaturesDict(features_dict, indent, add_prefix) ==
  LET first_last_indent_str == Spaces(indent)
      indent_str == Spaces(indent + 4)
      keys == SortedKeys(features_dict)
      Line(k) ==
        LET v == Lookup(features_dict, k)
            v_str == IF IsFeaturesDict(v)
                     THEN PprintFeaturesDict(v.dict, indent + 4, FALSE)
                     ELSE <<v.leaf>>
        IN indent_str \o <<"'", k, "': ">> \o v_str \o <<",">>
      lines == <<FirstLine(first_last_indent_str, add_prefix)>>
               \o [i \in 1..Len(keys) |-> Line(keys[i])]
               \o <<first_last_indent_str \o <<"})">>>>
  IN Join("\n", lines)

\* FEATURE_BLOCK % _pprint_features_dict(info.features); the tokens
\* "FENCE python" and "FENCE" stand for the two code-fence lines.
MakeFeatureInformation(i) ==
  <<"FENCE python", "\n">> \o PprintFeaturesDict(i.features, 0, TRUE)
    \o <<"\n", "FENCE", "\n">>

(***************************************************************************)
(* Split statistics.  info.splits is a sequence of [name, num_examples] in *)
(* the mapping's own order; total is <<>> when unset and <<n>> otherwise.  *)
(***************************************************************************)
SplitNames == {"train", "test", "validation"}

SplitsOfLen(n) ==
  { s \in [1..n -> [name : SplitNames, num_examples : 0..MaxCount]] :
      \A i, j \in 1..n : i # j => s[i].name # s[j].name }

SplitMappings == UNION {SplitsOfLen(n) : n \in 0..MaxSplits}

Totals == {<<>>} \cup {<<n>> : n \in 0..MaxCount}

\* not info.splits.total_num_examples
NotTotalUnsetOnly(total) == total = <<>>
NotTotal(total) == total = <<>> \/ total[1] = 0

\* The list stats after stats.sort(reverse=True): tuples (num_exs, name).
StatsUnsorted(i) ==
  <<[num_exs |-> i.total[1], name |-> "ALL"]>>
    \o [j \in 1..Len(i.splits) |->
          [num_exs |-> i.splits[j].num_examples, name |-> Upper(i.splits[j].name)]]
Stats(i) ==
  Vals(SortDescending(
    [j \in 1..Len(StatsUnsorted(i)) |->
       [key |-> <<StatsUnsorted(i)[j].num_exs>> \o Ord(StatsUnsorted(i)[j].name),
        val |-> StatsUnsorted(i)[j]]]))

\* "{0:10} | {1:>10,}".format(name, num_exs); the padding is left out and
\* the counts of the model have no thousands separator.
StatsRow(t) == <<t.name, " | ", ToString(t.num_exs)>>

MakeStatisticsInformation(i) ==
  IF NotTotal(i.total) THEN <<"None computed">>
  ELSE <<"Split  | Examples", "\n", ":----- | ---:", "\n">>
         \o Join("\n", [j \in 1..Len(Stats(i)) |-> StatsRow(Stats(i)[j])])
         \o <<"\n">>

(***************************************************************************)
(* The registry (external).  It maps a registered name to the __module__   *)
(* of the builder's class, already split on ".", and a name that is not    *)
(* registered to Unregistered.  The configs and the info record of a       *)
(* builder are those of its name.                                          *)
(***************************************************************************)
BuilderNames == {"alpha", "mid", "image_label_folder"}

ModulePaths ==
  { <<"tensorflow_datasets", "image", "mnist">>,
    <<"tensorflow_datasets", "image", "folder">>,
    <<"tensorflow_datasets", "text", "imdb">>,
    <<"tensorflow_datasets", "testing", "mnist">>,
    <<"tensorflow_datasets", "image", "testing">>,
    <<"other_pkg", "image", "mnist">>,
    <<"tensorflow_datasets", "image">>,
    <<"tensorflow_datasets", "image", "mnist", "deep">> }

Unregistered == <<>>

NoConfig == ""

\* builder.BUILDER_CONFIGS, by builder name.
ConfigsOf(name) ==
  CASE name = "mid" -> <<"small", "large">>
    [] OTHER -> <<>>

Leaf(l) == [leaf |-> l]

\* builder.info of the builder resolved for (name, config).
InfoOf(name, config) ==
  CASE name = "mid" /\ config = "large" ->
         [description |-> "mid, large", version |-> "2.0.0",
          urls |-> <<"http://mid/large", "http://mid/mirror">>,
          citation |-> "cite-large", supervised_keys |-> "('image', 'label')",
          size_in_bytes |-> 2,
          features |-> <<[k |-> "label", v |-> Leaf("ClassLabel")],
                         [k |-> "image", v |-> Leaf("Tensor")]>>,
          splits |-> <<[name |-> "train", num_examples |-> 2]>>, total |-> <<2>>]
    [] name = "mid" ->
         [description |-> "mid, small", version |-> "1.0.0",
          urls |-> <<"http://mid/small">>,
          citation |-> "cite-small", supervised_keys |-> "None",
          size_in_bytes |-> 1,
          features |-> <<[k |-> "image", v |-> Leaf("Tensor")]>>,
          splits |-> <<>>, total |-> <<>>]
    [] name = "image_label_folder" ->
         [description |-> "folder", version |-> "1.0.0",
          urls |-> <<>>,
          citation |-> "", supervised_keys |-> "('image', 'label')",
          size_in_bytes |-> 0,
          features |-> <<[k |-> "image", v |-> Leaf("Tensor")],
                         [k |-> "label", v |-> Leaf("ClassLabel")]>>,
          splits |-> <<>>, total |-> <<0>>]
    [] OTHER ->
         [description |-> "alpha", version |-> "1.0.0",
          urls |-> <<"http://alpha">>,
          citation |-> "cite-alpha", supervised_keys |-> "('image', 'label')",
          size_in_bytes |-> 1,
          features |-> <<[k |-> "objects",
                          v |-> [dict |-> <<[k |-> "label", v |-> Leaf("ClassLabel")]>>]]>>,
          splits |-> <<[name |-> "train", num_examples |-> 1],
                       [name |-> "test", num_examples |-> 1]>>, total |-> <<2>>]

Registered(reg, name) == reg[name] # Unregistered

\* The orders in which tfds.list_builders() may give the registered names.
Listings(reg) ==
  LET names == {name \in BuilderNames : Registered(reg, name)}
  IN { l \in [1..Cardinality(names) -> names] :
         \A i, j \in 1..Cardinality(names) : i # j => l[i] # l[j] }

\* tfds.builder(name, config=config) raises for a name that is not
\* registered and for a request, in bad, the registry cannot instantiate.
Fails(reg, bad, request) ==
  \/ ~Registered(reg, request[1])
  \/ request \in bad

\* The builder tfds.builder(name, ...) returns.
Builder(reg, name) ==
  [name |-> name,
   module |-> reg[name],
   builder_configs |-> ConfigsOf(name)]

\* A run of calls tfds.builder(...) in order, up to the first that raises.
ResolveInOrder(reg, bad, reqs) ==
  LET failing == {i \in 1..Len(reqs) : Fails(reg, bad, reqs[i])}
      first == IF failing = {} THEN 0
               ELSE CHOOSE i \in failing : \A j \in failing : i <= j
  IN [ok |-> failing = {},
      requests |-> {reqs[i] : i \in 1..(IF first = 0 THEN Len(reqs) ELSE first)}]

(***************************************************************************)
(* document_single_builder and its helpers.                                *)
(***************************************************************************)
\* tfds_mod_name
TfdsModName(mod_name) == <<"tfds">> \o Tail(mod_name)

\* url_from_info
UrlFromInfo(i) == IF i.urls # <<>> THEN i.urls[1] ELSE "<no known url>"

\* format_urls: one bullet per url, joined by newlines.
FormatUrls(urls) == Join("\n", [j \in 1..Len(urls) |-> <<" * ", urls[j]>>])

\* make_citation
MakeCitation(citation) ==
  IF citation # "" THEN <<"#### Citation", "\n", citation, "\n">> ELSE <<>>

\* tfds.units.size_str (external)
SizeStr(n) == ToString(n) \o " bytes"

\* The requests of the loop over builder.BUILDER_CONFIGS.
ConfigRequests(builder) ==
  [j \in 1..Len(builder.builder_configs) |-> <<builder.name, builder.builder_configs[j]>>]

\* The loop over the configs: it ends at the first config the registry
\* cannot resolve.
ResolveConfigsSkippingFailures(reg, bad, builder) ==
  [ok |-> TRUE, requests |-> {ConfigRequests(builder)[j] : j \in 1..Len(builder.builder_configs)}]
ResolveConfigs(reg, bad, builder) == ResolveInOrder(reg, bad, ConfigRequests(builder))

\* The info record the dataset-level fields are read from: the variable
\* info as the loop over the configs leaves it.
DatasetLevelInfo(builder) ==
  InfoOf(builder.name, builder.builder_configs[Len(builder.builder_configs)])

\* SINGLE_CONFIG_ENTRY.format(...): the template holds three placeholders.
ConfigDoc(builder, config) ==
  [tpl |-> "SINGLE_CONFIG_ENTRY",
   builder_name |-> builder.name,
   config_name |-> config,
   feature_information |-> MakeFeatureInformation(InfoOf(builder.name, config))]

\* CONFIG_BULLET.format(...)
ConfigBullet(builder, config) ==
  [tpl |-> "CONFIG_BULLET",
   name |-> config,
   size |-> SizeStr(InfoOf(builder.name, config).size_in_bytes)]

\* document_single_builder: [ok, requests, doc]; ok is FALSE when a call
\* of tfds.builder raised.
DocumentSingleBuilder(reg, bad, builder) ==
  IF builder.builder_configs # <<>>
  THEN LET resolved == ResolveConfigs(reg, bad, builder)
           configs == builder.builder_configs
           i == DatasetLevelInfo(builder)
       IN IF ~resolved.ok
          THEN [ok |-> FALSE, requests |-> resolved.requests, doc |-> <<>>]
          ELSE [ok |-> TRUE,
                requests |-> resolved.requests,
                doc |->
                  [tpl |-> "DATASET_WITH_CONFIGS_ENTRY",
                   snakecase_name |-> builder.name,
                   module_and_class |-> TfdsModName(builder.module),
                   config_names |-> [j \in 1..Len(configs) |-> ConfigBullet(builder, configs[j])],
                   configs |-> [j \in 1..Len(configs) |-> ConfigDoc(builder, configs[j])],
                   urls |-> FormatUrls(i.urls),
                   url |-> UrlFromInfo(i),
                   supervised_keys |-> i.supervised_keys,
                   citation |-> MakeCitation(i.citation),
                   statistics_information |-> MakeStatisticsInformation(i),
                   description |-> i.description]]
  ELSE LET i == InfoOf(builder.name, NoConfig)
       IN [ok |-> TRUE,
           requests |-> {},
           doc |->
             [tpl |-> "DATASET_ENTRY",
              snakecase_name |-> builder.name,
              module_and_class |-> TfdsModName(builder.module),
              description |-> i.description,
              version |-> i.version,
              feature_information |-> MakeFeatureInformation(i),
              statistics_information |-> MakeStatisticsInformation(i),
              urls |-> FormatUrls(i.urls),
              url |-> UrlFromInfo(i),
              supervised_keys |-> i.supervised_keys,
              citation |-> MakeCitation(i.citation),
              size |-> SizeStr(i.size_in_bytes)]]

\* create_section_toc: the heading link and one link per builder.
CreateSectionToc(section, builders) ==
  [heading |-> section,
   entries |-> [j \in 1..Len(builders) |-> builders[j].name]]

(***************************************************************************)
(* make_module_to_builder_dict.  A dict is a function on its keys; a       *)
(* defaultdict yields its default for a key it does not hold.              *)
(***************************************************************************)
BUILDER_BLACKLIST == {"image_label_folder"}

EmptyDict == <<>>

Get(d, k) == IF k \in DOMAIN d THEN d[k] ELSE EmptyDict

Put(d, k, v) == (k :> v) @@ d

\* The names whose builders are resolved when no datasets are given.
DefaultNamesUnfiltered(list_builders) == list_builders \o <<"image_label_folder">>
DefaultNames(list_builders) ==
  SelectSeq(list_builders, LAMBDA name : name \notin BUILDER_BLACKLIST)
    \o <<"image_label_folder">>

\* if "testing" in modules: continue
InTestingSecondSegmentOnly(modules) == Len(modules) >= 2 /\ modules[2] = "testing"
InTesting(modules) == \E j \in 1..Len(modules) : modules[j] = "testing"

\* The walk down the three defaultdict levels ends on a list only for a
\* path of three segments: a shorter one calls append on a defaultdict, a
\* longer one indexes a list by a string, and both raise.
WalkRaises(modules) == Len(modules) # 3

\* current_mod_ctr = current_mod_ctr[mod] ...; current_mod_ctr.append(builder)
InsertBuilderReplacing(mtb, builder) ==
  LET m == builder.module
      level1 == Get(mtb, m[1])
      level2 == Get(level1, m[2])
  IN Put(mtb, m[1], Put(level1, m[2], Put(level2, m[3], <<builder>>)))
InsertBuilder(mtb, builder) ==
  LET m == builder.module
      level1 == Get(mtb, m[1])
      level2 == Get(level1, m[2])
      bucket == Get(level2, m[3])
  IN Put(mtb, m[1], Put(level1, m[2], Put(level2, m[3], Append(bucket, builder))))

RECURSIVE InsertAll(_, _)
InsertAll(mtb, builders) ==
  IF builders = <<>> THEN mtb
  ELSE InsertAll(InsertBuilder(mtb, Head(builders)), Tail(builders))

\* make_module_to_builder_dict: [ok, requests, module_to_builder]; ok is
\* FALSE when a call of tfds.builder or the walk raised.
MakeModuleToBuilderDict(reg, list_builders, ds) ==
  LET names == IF ds # <<>> THEN ds ELSE DefaultNames(list_builders)
      resolved == ResolveInOrder(reg, {}, [j \in 1..Len(names) |-> <<names[j], NoConfig>>])
      builders == [j \in 1..Len(names) |-> Builder(reg, names[j])]
      kept == SelectSeq(builders, LAMBDA b : ~InTesting(b.module))
  IN IF ~resolved.ok \/ \E j \in 1..Len(kept) : WalkRaises(kept[j].module)
     THEN [ok |-> FALSE, requests |-> resolved.requests, module_to_builder |-> EmptyDict]
     ELSE [ok |-> TRUE,
           requests |-> resolved.requests,
           module_to_builder |-> Get(InsertAll(EmptyDict, kept), "tensorflow_datasets")]

(***************************************************************************)
(* dataset_docs_str.                                                       *)
(***************************************************************************)
\* sorted(list(d.keys())): the keys of a dict in ascending order.
RECURSIVE SortedSet(_)
SortedSet(S) ==
  IF S = {} THEN <<>>
  ELSE LET least == CHOOSE x \in S : \A y \in S \ {x} : LexLess(Ord(x), Ord(y))
       IN <<least>> \o SortedSet(S \ {least})

Sections(mtb) == SortedSet(DOMAIN mtb)

\* tf.nest.flatten of a dict of lists: the lists in the order of the sorted
\* keys, end to end.
RECURSIVE Concat(_)
Concat(seqs) == IF seqs = <<>> THEN <<>> ELSE Head(seqs) \o Concat(Tail(seqs))

Flatten(d) ==
  LET keys == SortedSet(DOMAIN d)
  IN Concat([j \in 1..Len(keys) |-> d[keys[j]]])

\* sorted(builders, key=lambda b: b.name)
UnsortedBuilders(builders) == builders
SortedBuilders(builders) ==
  Vals(SortAscending([j \in 1..Len(builders) |->
                        [key |-> Ord(builders[j].name), val |-> builders[j]]]))

\* [document_single_builder(builder) for builder in builders]: it ends at
\* the first builder whose documentation raises.
RECURSIVE DocumentBuilders(_, _, _)
DocumentBuilders(reg, bad, builders) ==
  IF builders = <<>> THEN [ok |-> TRUE, requests |-> {}, docs |-> <<>>]
  ELSE LET first == DocumentSingleBuilder(reg, bad, Head(builders))
           rest == DocumentBuilders(reg, bad, Tail(builders))
       IN IF ~first.ok
          THEN [ok |-> FALSE, requests |-> first.requests, docs |-> <<>>]
          ELSE [ok |-> rest.ok,
                requests |-> first.requests \cup rest.requests,
                docs |-> IF rest.ok THEN <<first.doc>> \o rest.docs ELSE <<>>]

\* One pass of the loop over the sections.
DocumentSection(reg, bad, mtb, section) ==
  LET builders == SortedBuilders(Flatten(mtb[section]))
      documented == DocumentBuilders(reg, bad, builders)
  IN [ok |-> documented.ok,
      requests |-> documented.requests,
      section_doc |-> [tpl |-> "SECTION_DATASETS",
                       section_name |-> section,
                       datasets |-> documented.docs],
      section_toc |-> CreateSectionToc(section, builders)]

\* DOC.format(toc="\n".join(section_tocs), datasets="\n".join(section_docs))
FullDoc(tocs, docs) == [tpl |-> "DOC", toc |-> tocs, datasets |-> docs]

NoDoc == [tpl |-> "NONE"]

\* dataset_docs_str as one function of the registry, its listing, the
\* requests it fails and the argument: [ok, doc].
RECURSIVE DocumentSections(_, _, _, _)
DocumentSections(reg, bad, mtb, sections) ==
  IF sections = <<>> THEN [ok |-> TRUE, tocs |-> <<>>, docs |-> <<>>]
  ELSE LET first == DocumentSection(reg, bad, mtb, Head(sections))
           rest == DocumentSections(reg, bad, mtb, Tail(sections))
       IN IF first.ok /\ rest.ok
          THEN [ok |-> TRUE,
                tocs |-> <<first.section_toc>> \o rest.tocs,
                docs |-> <<first.section_doc>> \o rest.docs]
          ELSE [ok |-> FALSE, tocs |-> <<>>, docs |-> <<>>]

DatasetDocsStr(reg, list_builders, bad, ds) ==
  LET grouped == MakeModuleToBuilderDict(reg, list_builders, ds)
      rendered == DocumentSections(reg, bad, grouped.module_to_builder,
                                   Sections(grouped.module_to_builder))
  IN IF grouped.ok /\ rendered.ok
     THEN [ok |-> TRUE, doc |-> FullDoc(rendered.tocs, rendered.docs)]
     ELSE [ok |-> FALSE, doc |-> NoDoc]

(***************************************************************************)
(* The run of dataset_docs_str, and of main when no datasets are given.    *)
(***************************************************************************)
Registries == [BuilderNames -> ModulePaths \cup {Unregistered}]

DatasetsArguments == UNION { [1..n -> BuilderNames] : n \in 0..MaxDatasets }

\* What the registry may fail while a section is documented: nothing, or
\* one request for a config of a registered builder.
Unresolvables(reg) ==
  {{}} \cup UNION { { {<<name, ConfigsOf(name)[j]>>} : j \in 1..Len(ConfigsOf(name)) }
                      : name \in {n \in BuilderNames : Registered(reg, n)} }

RenderIdle ==
  /\ info = NoInfo
  /\ feature_information = NoText
  /\ statistics_information = NoText

Init ==
  /\ pc = "start"
  /\ RenderIdle
  /\ registry \in Registries
  /\ listing = <<>>
  /\ datasets \in DatasetsArguments
  /\ unresolvable = {}
  /\ requests = {}
  /\ module_to_builder = EmptyDict
  /\ section_tocs = <<>>
  /\ section_docs = <<>>
  /\ full_doc = NoDoc
  /\ stdout = NoDoc

\* module_to_builder = make_module_to_builder_dict(datasets); the registry
\* is asked for its listing only when no datasets are given.
Group ==
  /\ pc = "start"
  /\ \E list_builders \in (IF datasets # <<>> THEN {listing} ELSE Listings(registry)) :
     LET grouped == MakeModuleToBuilderDict(registry, list_builders, datasets)
     IN /\ listing' = list_builders
        /\ requests' = requests \cup grouped.requests
        /\ module_to_builder' = grouped.module_to_builder
        /\ pc' = IF grouped.ok THEN "sections" ELSE "error"
  /\ UNCHANGED <<renderVars, registry, unresolvable, datasets, section_tocs,
                 section_docs, full_doc, stdout>>

\* One pass of "for section in sections"; the registry resolves every
\* config it is asked for, or fails one.
Section ==
  /\ pc = "sections"
  /\ Len(section_docs) < Len(Sections(module_to_builder))
  /\ \E bad \in Unresolvables(registry) :
     LET section == Sections(module_to_builder)[Len(section_docs) + 1]
         documented == DocumentSection(registry, bad, module_to_builder, section)
     IN /\ requests' = requests \cup documented.requests
        /\ unresolvable' = unresolvable \cup (bad \cap documented.requests)
        /\ IF documented.ok
           THEN /\ section_docs' = Append(section_docs, documented.section_doc)
                /\ section_tocs' = Append(section_tocs, documented.section_toc)
                /\ pc' = pc
           ELSE /\ UNCHANGED <<section_docs, section_tocs>>
                /\ pc' = "error"
  /\ UNCHANGED <<renderVars, registry, listing, datasets, module_to_builder,
                 full_doc, stdout>>

\* full_doc = DOC.format(...); return full_doc
Assemble ==
  /\ pc = "sections"
  /\ Len(section_docs) = Len(Sections(module_to_builder))
  /\ full_doc' = FullDoc(section_tocs, section_docs)
  /\ pc' = "returned"
  /\ UNCHANGED <<renderVars, registry, listing, unresolvable, datasets, requests,
                 module_to_builder, section_tocs, section_docs, stdout>>

\* main: print(dataset_docs_str())
Main ==
  /\ pc = "returned"
  /\ datasets = <<>>
  /\ stdout' = full_doc
  /\ pc' = "printed"
  /\ UNCHANGED <<renderVars, registry, listing, unresolvable, datasets, requests,
                 module_to_builder, section_tocs, section_docs, full_doc>>

Next == Group \/ Section \/ Assemble \/ Main

Spec == Init /\ [][Next]_vars

DocIdle ==
  /\ registry = [name \in BuilderNames |-> Unregistered]
  /\ listing = <<>>
  /\ unresolvable = {}
  /\ datasets = <<>>
  /\ requests = {}
  /\ module_to_builder = EmptyDict
  /\ section_tocs = <<>>
  /\ section_docs = <<>>
  /\ full_doc = NoDoc
  /\ stdout = NoDoc

(***************************************************************************)
(* The two renderers, each on an info record of its own.                   *)
(***************************************************************************)
InitFeatures ==
  /\ pc = "start"
  /\ info \in {[features |-> f, splits |-> <<>>, total |-> <<>>] : f \in Schemas}
  /\ feature_information = NoText
  /\ statistics_information = NoText
  /\ DocIdle

RenderFeatures ==
  /\ pc = "start"
  /\ feature_information' = MakeFeatureInformation(info)
  /\ pc' = "done"
  /\ UNCHANGED <<info, statistics_information, docVars>>

SpecFeatures == InitFeatures /\ [][RenderFeatures]_vars

InitStatistics ==
  /\ pc = "start"
  /\ info \in {[features |-> <<>>, splits |-> s, total |-> t] :
                 s \in SplitMappings, t \in Totals}
  /\ feature_information = NoText
  /\ statistics_information = NoText
  /\ DocIdle

RenderStatistics ==
  /\ pc = "start"
  /\ statistics_information' = MakeStatisticsInformation(info)
  /\ pc' = "done"
  /\ UNCHANGED <<info, feature_information, docVars>>

SpecStatistics == InitStatistics /\ [][RenderStatistics]_vars

(***************************************************************************)
(* Properties of the feature-tree renderer.                                *)
(***************************************************************************)
Positions(text, tok) == {p \in 1..Len(text) : text[p] = tok}

\* The number of mappings nested in a schema, at every depth.
RECURSIVE NestedDicts(_)
NestedDicts(fd) ==
  IF fd = <<>> THEN 0
  ELSE (IF IsFeaturesDict(Head(fd).v) THEN 1 + NestedDicts(Head(fd).v.dict) ELSE 0)
       + NestedDicts(Tail(fd))

\* The largest nesting depth of a schema (0: no nested mapping).
RECURSIVE DepthOf(_)
DepthOf(fd) ==
  IF fd = <<>> THEN 0
  ELSE LET here == IF IsFeaturesDict(Head(fd).v) THEN 1 + DepthOf(Head(fd).v.dict) ELSE 0
           rest == DepthOf(Tail(fd))
       IN IF here > rest THEN here ELSE rest

RECURSIVE Reorderings(_)
Reorderings(fd) ==
  IF fd = <<>> THEN {<<>>}
  ELSE UNION {
         LET values == IF IsFeaturesDict(fd[i].v)
                       THEN {[dict |-> r] : r \in Reorderings(fd[i].v.dict)}
                       ELSE {fd[i].v}
             rests == Reorderings(SubSeq(fd, 1, i - 1) \o SubSeq(fd, i + 1, Len(fd)))
         IN { <<[k |-> fd[i].k, v |-> v]>> \o rest : v \in values, rest \in rests }
         : i \in 1..Len(fd) }

\* The indentation of the key line whose opening quote is at position p.
IndentAt(text, p) ==
  p - 1 - CHOOSE q \in 1..(p - 1) :
            /\ text[q] = "\n"
            /\ \A r \in (q + 1)..(p - 1) : text[r] = " "

\* Two key lines of one mapping: the same indentation, and no key line of
\* an enclosing mapping between them.
SameMapping(text, p, q) ==
  /\ p < q
  /\ IndentAt(text, p) = IndentAt(text, q)
  /\ \A r \in Positions(text, "'") :
       (p < r /\ r < q) => IndentAt(text, r) >= IndentAt(text, p)

\* C7: the keys of every mapping, root and nested, are emitted in ascending
\* lexicographic order whatever the mapping's own key order, so schemas of
\* the same content in different key orders render to the same text.
C7_KeysSortedAtEveryLevel ==
  pc = "done" =>
    /\ \A p, q \in Positions(feature_information, "'") :
         SameMapping(feature_information, p, q) =>
           LexLess(Ord(feature_information[p + 1]), Ord(feature_information[q + 1]))
    /\ \A r \in Reorderings(info.features) :
         MakeFeatureInformation([info EXCEPT !.features = r]) = feature_information

\* A schema whose nested mapping holds its keys in descending order has been
\* rendered.
C7_Witness ==
  /\ pc = "done"
  /\ \E i \in 1..Len(info.features) :
       /\ IsFeaturesDict(info.features[i].v)
       /\ KeysOf(info.features[i].v.dict) = <<"label", "image">>
  /\ Cardinality(Reorderings(info.features)) > 1

(***************************************************************************)
(* Properties of the statistics renderer.                                  *)
(***************************************************************************)
\* C3 as stated: when the total example count is not zero, the first data
\* row of the table is the row "ALL" with the total, also when a split has
\* as many examples as the total.
C3_AllRowIsFirst ==
  (pc = "done" /\ info.total # <<>> /\ info.total[1] # 0) =>
    SubSeq(statistics_information, 5, 7) = <<"ALL", " | ", ToString(info.total[1])>>

\* C8: the result is exactly "None computed" if and only if the total
\* example count is zero or unset, and the renderer returns normally.
C8_SentinelIffNoTotal ==
  pc = "done" =>
    (statistics_information = <<"None computed">>
       <=> (info.total = <<>> \/ info.total[1] = 0))

\* Both outcomes have happened: the sentinel for a total of zero with
\* splits present, and a table for a total that is not zero.
C8_Witness ==
  /\ pc = "done"
  /\ info.total = <<0>>
  /\ info.splits # <<>>
  /\ statistics_information = <<"None computed">>

(***************************************************************************)
(* Properties of the run of dataset_docs_str.                              *)
(***************************************************************************)
Grouped == pc \in {"sections", "returned", "printed"}

HasTestingSegment(path) == \E j \in 1..Len(path) : path[j] = "testing"

UnderTfds(path) == path # <<>> /\ path[1] = "tensorflow_datasets"

Occurrences(seq, x) == Cardinality({j \in 1..Len(seq) : seq[j] = x})

\* The names whose builders the run considers, and how often each.
Enumerated ==
  IF datasets # <<>> THEN {datasets[j] : j \in 1..Len(datasets)}
  ELSE {listing[j] : j \in 1..Len(listing)} \cup {"image_label_folder"}

TimesEnumerated(name) ==
  IF datasets # <<>> THEN Occurrences(datasets, name) ELSE 1

\* The places (section, leaf module, index) of the hierarchy.
Slots(mtb) ==
  UNION { UNION { { <<sec, leaf, j>> : j \in 1..Len(mtb[sec][leaf]) }
                  : leaf \in DOMAIN mtb[sec] }
          : sec \in DOMAIN mtb }

InHierarchy(name) ==
  { x \in Slots(module_to_builder) : module_to_builder[x[1]][x[2]][x[3]].name = name }

\* The links of a list of section tables of contents and the entries of a
\* list of section bodies: (section, index) pairs.
TocLinks(tocs, name) ==
  UNION { { <<tocs[sec].heading, j>> :
              j \in {i \in 1..Len(tocs[sec].entries) : tocs[sec].entries[i] = name} }
          : sec \in 1..Len(tocs) }

BodyEntries(docs, name) ==
  UNION { { <<docs[sec].section_name, j>> :
              j \in {i \in 1..Len(docs[sec].datasets) :
                       docs[sec].datasets[i].snakecase_name = name} }
          : sec \in 1..Len(docs) }

BodyNames(section_doc) ==
  [j \in 1..Len(section_doc.datasets) |-> section_doc.datasets[j].snakecase_name]

Reorders(seq) ==
  { [j \in 1..Len(seq) |-> seq[p[j]]] :
      p \in { q \in [1..Len(seq) -> 1..Len(seq)] :
                \A i, j \in 1..Len(seq) : i # j => q[i] # q[j] } }

\* C1 as stated: the dataset-level fields of the entry of a builder with
\* configurations (URL, URL list, citation, statistics table, supervised
\* keys) are those of the info record of the first declared configuration.
C1_DatasetLevelFromFirstConfig ==
  \A sec \in 1..Len(section_docs) :
    \A j \in 1..Len(section_docs[sec].datasets) :
      LET entry == section_docs[sec].datasets[j]
          first == InfoOf(entry.snakecase_name, ConfigsOf(entry.snakecase_name)[1])
      IN entry.tpl = "DATASET_WITH_CONFIGS_ENTRY" =>
           /\ entry.url = UrlFromInfo(first)
           /\ entry.urls = FormatUrls(first.urls)
           /\ entry.citation = MakeCitation(first.citation)
           /\ entry.statistics_information = MakeStatisticsInformation(first)
           /\ entry.supervised_keys = first.supervised_keys

C5_TestingBuildersLeftOut ==
  \A name \in BuilderNames :
    HasTestingSegment(registry[name]) =>
      /\ InHierarchy(name) = {}
      /\ TocLinks(section_tocs, name) = {}
      /\ BodyEntries(section_docs, name) = {}
      /\ full_doc # NoDoc =>
           TocLinks(full_doc.toc, name) = {} /\ BodyEntries(full_doc.datasets, name) = {}
      /\ stdout # NoDoc =>
           TocLinks(stdout.toc, name) = {} /\ BodyEntries(stdout.datasets, name) = {}

\* A document with an entry has been returned for an enumeration that holds
\* a builder whose path ends in "testing" and one whose path has "testing"
\* in the middle.
C5_Witness ==
  /\ full_doc # NoDoc
  /\ full_doc.datasets # <<>>
  /\ \E a, b \in Enumerated :
       /\ registry[a] = <<"tensorflow_datasets", "image", "testing">>
       /\ registry[b] = <<"tensorflow_datasets", "testing", "mnist">>

Ascending(names) ==
  \A j \in 1..(Len(names) - 1) : ~LexLess(Ord(names[j + 1]), Ord(names[j]))

StrictlyAscending(names) ==
  \A j \in 1..(Len(names) - 1) : LexLess(Ord(names[j]), Ord(names[j + 1]))

\* C6: the sections are in ascending order of name and the builders of a
\* section in ascending order of name, in the table of contents and in the
\* body, and every order of the same enumeration gives the same document.
C6_OrderOfEnumerationIrrelevant ==
  full_doc # NoDoc =>
    /\ StrictlyAscending([j \in 1..Len(full_doc.toc) |-> full_doc.toc[j].heading])
    /\ StrictlyAscending([j \in 1..Len(full_doc.datasets) |->
                            full_doc.datasets[j].section_name])
    /\ \A j \in 1..Len(full_doc.toc) : Ascending(full_doc.toc[j].entries)
    /\ \A j \in 1..Len(full_doc.datasets) : Ascending(BodyNames(full_doc.datasets[j]))
    /\ \A l \in Reorders(listing) : \A d \in Reorders(datasets) :
         DatasetDocsStr(registry, l, {}, d) = [ok |-> TRUE, doc |-> full_doc]

\* A document of two sections has been returned whose first section holds
\* two builders the enumeration gave in descending order.
C6_Witness ==
  /\ full_doc # NoDoc
  /\ Len(full_doc.toc) = 2
  /\ full_doc.toc[1].entries = <<"alpha", "mid">>
  /\ \E i, j \in 1..Len(listing) : i < j /\ listing[i] = "mid" /\ listing[j] = "alpha"

\* C9: once the registry has failed a request the run is in the error state
\* and no document has been returned or printed; a document exists only
\* when every builder of the enumeration and every configuration of every
\* documented builder has been resolved.
C9_AllOrNothing ==
  /\ (\E r \in requests : Fails(registry, unresolvable, r)) =>
       pc = "error" /\ full_doc = NoDoc /\ stdout = NoDoc
  /\ pc = "error" => full_doc = NoDoc /\ stdout = NoDoc
  /\ stdout # NoDoc => stdout = full_doc
  /\ full_doc # NoDoc =>
       /\ \A name \in Enumerated : <<name, NoConfig>> \in requests
       /\ \A name \in BuilderNames :
            BodyEntries(full_doc.datasets, name) # {} =>
              \A j \in 1..Len(ConfigsOf(name)) : <<name, ConfigsOf(name)[j]>> \in requests

\* The registry has failed a configuration after a first section had been
\* documented: the run is in the error state.
C9_Witness ==
  /\ pc = "error"
  /\ section_docs # <<>>
  /\ unresolvable # {}

\* C10 as stated: every enumerated builder without a "testing" segment,
\* whatever the root segment of its path and the number of its segments, has
\* exactly one link and exactly one entry in a document that is returned,
\* under the same section, and the links of a section are its entries.
C10_OneLinkOneEntry ==
  full_doc # NoDoc =>
    /\ \A name \in Enumerated :
         ~HasTestingSegment(registry[name]) =>
           /\ Cardinality(TocLinks(full_doc.toc, name)) = 1
           /\ TocLinks(full_doc.toc, name) = BodyEntries(full_doc.datasets, name)
    /\ Len(full_doc.toc) = Len(full_doc.datasets)
    /\ \A j \in 1..Len(full_doc.toc) :
         /\ full_doc.toc[j].heading = full_doc.datasets[j].section_name
         /\ full_doc.toc[j].entries = BodyNames(full_doc.datasets[j])

\* C10 amended: in a document that is returned, an enumerated builder
\* without a "testing" segment whose path starts with tensorflow_datasets
\* has a path of three segments and has one link and one entry for each time
\* the enumeration names it (one, unless an explicit list repeats the name),
\* all under the section its second segment names; one whose path starts
\* with another segment has no link and no entry; and the links of a
\* section are its entries.
C10_OneLinkPerEnumeration ==
  full_doc # NoDoc =>
    /\ \A name \in Enumerated :
         ~HasTestingSegment(registry[name]) =>
           /\ Len(registry[name]) = 3
           /\ TocLinks(full_doc.toc, name) = BodyEntries(full_doc.datasets, name)
           /\ \A x \in TocLinks(full_doc.toc, name) : x[1] = registry[name][2]
           /\ Cardinality(TocLinks(full_doc.toc, name))
                = IF UnderTfds(registry[name]) THEN TimesEnumerated(name) ELSE 0
    /\ Len(full_doc.toc) = Len(full_doc.datasets)
    /\ \A j \in 1..Len(full_doc.toc) :
         /\ full_doc.toc[j].heading = full_doc.datasets[j].section_name
         /\ full_doc.toc[j].entries = BodyNames(full_doc.datasets[j])

\* A document has been returned for an enumeration with two builders of one
\* module and a builder of another root.
C10_Witness ==
  /\ full_doc # NoDoc
  /\ \E a, b, c \in Enumerated :
       /\ a # b
       /\ registry[a] = registry[b]
       /\ UnderTfds(registry[a])
       /\ Cardinality(TocLinks(full_doc.toc, a)) = 1
       /\ Cardinality(TocLinks(full_doc.toc, b)) = 1
       /\ registry[c] = <<"other_pkg", "image", "mnist">>

====
